---- MODULE Spec2Model ----
(***************************************************************************)
(* Material scattering of a path tracer (src/interactions.h): the two      *)
(* hemisphere samplers and scatterRay.                                     *)
(*                                                                         *)
(* A float is a fixed-point integer in units of 1/SCALE, rounded to the    *)
(* nearest unit after every operation; the one non-finite result the code  *)
(* can produce (the square root of a negative number) is the value NaN,    *)
(* which every operation propagates and every comparison rejects.          *)
(* A vec3 is a tuple <<x, y, z>>.                                          *)
(***************************************************************************)
EXTENDS Integers, Sequences, FiniteSets, TLC

VARIABLES pathSegments,   \* [path -> PathSegment]: ray.origin, ray.direction, color
          intersections,  \* [path -> ShadeableIntersection]: t, surfaceNormal, outside
          materials,      \* [material id -> Material]
          materialId,     \* [path -> material id]: the material each call is given
          rngs,           \* [path -> the draws its generator has yet to produce]
          pc,             \* [path -> position of the call of scatterRay on it]
          frames,         \* [path -> the call's frame: its arguments and locals]
          pre,            \* the arguments as they were before any call
          sample,         \* the locals of the last direct call of a hemisphere sampler
          acc             \* the tally of repeated calls over the values of choice

vars == <<pathSegments, intersections, materials, materialId, rngs, pc, frames,
          pre, sample, acc>>

-----------------------------------------------------------------------------
(* Bounds *)

\* The draws of the hemisphere samplers are k / DrawCells, k < DrawCells.
DrawCells == 4

\* choice takes the midpoints of 10 * ChoiceTenths equal cells of [0, 1).
ChoiceTenths == 1

-----------------------------------------------------------------------------
(* float *)

SCALE == 10000

NaN == -1073741824

IsNaN(a) == a = NaN

F(n, d) == (n * SCALE) \div d

Abs(a) == IF a < 0 THEN -a ELSE a

RoundDiv(n, d) ==
    IF n >= 0 THEN (2 * n + d) \div (2 * d) ELSE -((2 * (-n) + d) \div (2 * d))

Add(a, b) == IF IsNaN(a) \/ IsNaN(b) THEN NaN ELSE a + b

Sub(a, b) == IF IsNaN(a) \/ IsNaN(b) THEN NaN ELSE a - b

Neg(a) == IF IsNaN(a) THEN NaN ELSE -a

Mul(a, b) == IF IsNaN(a) \/ IsNaN(b) THEN NaN ELSE RoundDiv(a * b, SCALE)

\* x / 0 is not finite; the code divides only by 1 + ratio and by ratio > 0.
Div(a, b) ==
    IF IsNaN(a) \/ IsNaN(b) \/ b = 0 THEN NaN
    ELSE IF b > 0 THEN RoundDiv(a * SCALE, b) ELSE RoundDiv(-(a * SCALE), -b)

\* Comparisons with NaN are false.
Lt(a, b) == ~IsNaN(a) /\ ~IsNaN(b) /\ a < b

Gt(a, b) == ~IsNaN(a) /\ ~IsNaN(b) /\ a > b

FAbs(a) == IF IsNaN(a) THEN NaN ELSE Abs(a)

RECURSIVE SqrtSearch(_, _, _)
SqrtSearch(n, lo, hi) ==
    IF lo >= hi THEN lo
    ELSE LET mid == (lo + hi + 1) \div 2
         IN  IF mid * mid <= n THEN SqrtSearch(n, mid, hi)
             ELSE SqrtSearch(n, lo, mid - 1)

ISqrt(n) ==
    LET r == SqrtSearch(n, 0, 46340)
    IN  IF n - r * r <= r THEN r ELSE r + 1

\* sqrt of a negative number is NaN.
Sqrt(a) == IF IsNaN(a) \/ a < 0 THEN NaN ELSE ISqrt(a * SCALE)

RECURSIVE Pow(_, _)
Pow(a, n) == IF n = 0 THEN SCALE ELSE Mul(a, Pow(a, n - 1))

TWO_PI == 62832

HALF_PI == TWO_PI \div 4

\* cos and sin on [0, pi/2), by their series.
CosSeries(r) ==
    LET z == Mul(r, r)
        h4 == SCALE - Div(z, 56 * SCALE)
        h3 == SCALE - Mul(Div(z, 30 * SCALE), h4)
        h2 == SCALE - Mul(Div(z, 12 * SCALE), h3)
    IN  SCALE - Mul(Div(z, 2 * SCALE), h2)

SinSeries(r) ==
    LET z == Mul(r, r)
        h4 == SCALE - Div(z, 72 * SCALE)
        h3 == SCALE - Mul(Div(z, 42 * SCALE), h4)
        h2 == SCALE - Mul(Div(z, 20 * SCALE), h3)
    IN  Mul(r, SCALE - Mul(Div(z, 6 * SCALE), h2))

Cos(a) ==
    IF IsNaN(a) THEN NaN
    ELSE LET x == a % TWO_PI
             q == x \div HALF_PI
             r == x % HALF_PI
         IN  CASE q = 0 -> CosSeries(r)
               [] q = 1 -> -SinSeries(r)
               [] q = 2 -> -CosSeries(r)
               [] OTHER -> SinSeries(r)

Sin(a) ==
    IF IsNaN(a) THEN NaN
    ELSE LET x == a % TWO_PI
             q == x \div HALF_PI
             r == x % HALF_PI
         IN  CASE q = 0 -> SinSeries(r)
               [] q = 1 -> CosSeries(r)
               [] q = 2 -> -SinSeries(r)
               [] OTHER -> -CosSeries(r)

-----------------------------------------------------------------------------
(* glm::vec3 *)

VNaN == <<NaN, NaN, NaN>>

VHasNaN(v) == IsNaN(v[1]) \/ IsNaN(v[2]) \/ IsNaN(v[3])

VAdd(a, b) == <<Add(a[1], b[1]), Add(a[2], b[2]), Add(a[3], b[3])>>

VSub(a, b) == <<Sub(a[1], b[1]), Sub(a[2], b[2]), Sub(a[3], b[3])>>

VNeg(a) == <<Neg(a[1]), Neg(a[2]), Neg(a[3])>>

VScale(k, a) == <<Mul(k, a[1]), Mul(k, a[2]), Mul(k, a[3])>>

VMul(a, b) == <<Mul(a[1], b[1]), Mul(a[2], b[2]), Mul(a[3], b[3])>>

Dot(a, b) == Add(Add(Mul(a[1], b[1]), Mul(a[2], b[2])), Mul(a[3], b[3]))

Cross(a, b) ==
    <<Sub(Mul(a[2], b[3]), Mul(b[2], a[3])),
      Sub(Mul(a[3], b[1]), Mul(b[3], a[1])),
      Sub(Mul(a[1], b[2]), Mul(b[1], a[2]))>>

Length(a) == Sqrt(Dot(a, a))

\* v * inversesqrt(dot(v, v)): 0 * infinity is NaN.
Normalize(v) ==
    LET len == Length(v)
    IN  IF IsNaN(len) \/ len = 0 THEN VNaN
        ELSE <<Div(v[1], len), Div(v[2], len), Div(v[3], len)>>

\* I - N * dot(N, I) * 2
Reflect(I, N) == VSub(I, VScale(Mul(Dot(N, I), 2 * SCALE), N))

\* k = 1 - eta^2 (1 - dot(N, I)^2); k < 0 ? 0 : eta I - (eta dot(N, I) + sqrt(k)) N
Refract(I, N, eta) ==
    LET d == Dot(N, I)
        k == Sub(SCALE, Mul(Mul(eta, eta), Sub(SCALE, Mul(d, d))))
    IN  IF Lt(k, 0) THEN <<0, 0, 0>>
        ELSE VSub(VScale(eta, I), VScale(Add(Mul(eta, d), Sqrt(k)), N))

-----------------------------------------------------------------------------
(* thrust::default_random_engine and uniform_real_distribution<float>(0, 1) *)

\* A generator is the sequence of draws it has yet to produce; u01(rng)
\* returns the first of them and advances the generator.
U01(rng) == [value |-> Head(rng), rng |-> Tail(rng)]

\* The draws a generator can produce for the hemisphere samplers.
Draws == {F(k, DrawCells) : k \in 0 .. DrawCells - 1}

ChoiceCells == 10 * ChoiceTenths

\* The values of choice: the midpoint of each cell.
Choices == {F(2 * k + 1, 2 * ChoiceCells) : k \in 0 .. ChoiceCells - 1}

-----------------------------------------------------------------------------
(* The hemisphere samplers *)

SQRT_OF_ONE_THIRD == 5774

directionNotNormalSwapped(normal) ==
    IF Gt(FAbs(normal[1]), SQRT_OF_ONE_THIRD) THEN <<SCALE, 0, 0>>
    ELSE IF Gt(FAbs(normal[2]), SQRT_OF_ONE_THIRD) THEN <<0, SCALE, 0>>
    ELSE <<0, 0, SCALE>>

directionNotNormal(normal) ==
    IF Lt(FAbs(normal[1]), SQRT_OF_ONE_THIRD) THEN <<SCALE, 0, 0>>
    ELSE IF Lt(FAbs(normal[2]), SQRT_OF_ONE_THIRD) THEN <<0, SCALE, 0>>
    ELSE <<0, 0, SCALE>>

\* The two perpendicular directions and the returned combination; fn, the
\* draws and the remapped draws are recorded with them.
HemisphereLocals(fn, normal, s, t, s_p, t_p, up, over, around, rng) ==
    LET notNormal == directionNotNormal(normal)
        perp1 == Normalize(Cross(normal, notNormal))
        perp2 == Normalize(Cross(normal, perp1))
    IN  [fn |-> fn, normal |-> normal, s |-> s, t |-> t, s_p |-> s_p, t_p |-> t_p,
         up |-> up, over |-> over, around |-> around,
         directionNotNormal |-> notNormal,
         perpendicularDirection1 |-> perp1,
         perpendicularDirection2 |-> perp2,
         dir |-> VAdd(VAdd(VScale(up, normal),
                           VScale(Mul(Cos(around), over), perp1)),
                      VScale(Mul(Sin(around), over), perp2)),
         rng |-> rng]

\* The first draw is cos(theta)^2, the second the azimuth.
calculateLocals(normal, rng) ==
    LET d1 == U01(rng)
        up == Sqrt(d1.value)
        over == Sqrt(Sub(SCALE, Mul(up, up)))
        d2 == U01(d1.rng)
        around == Mul(d2.value, TWO_PI)
    IN  HemisphereLocals("calculate", normal, d2.value, d1.value, d2.value, d1.value,
                         up, over, around, d2.rng)

calculateRandomDirectionInHemisphere(normal, rng) ==
    LET l == calculateLocals(normal, rng) IN [dir |-> l.dir, rng |-> l.rng]

shirleyLocals(normal, rng) ==
    LET d1 == U01(rng)
        s == d1.value
        d2 == U01(d1.rng)
        t == d2.value
        s_p == IF Lt(s, F(1, 2))
               THEN Add(-F(1, 2), Sqrt(Mul(2 * SCALE, s)))
               ELSE Sub(F(3, 2), Sqrt(Sub(2 * SCALE, Mul(2 * SCALE, s))))
        t_p == IF Lt(s, F(1, 2))
               THEN Add(-F(1, 2), Sqrt(Mul(2 * SCALE, t)))
               ELSE Sub(F(3, 2), Sqrt(Sub(2 * SCALE, Mul(2 * SCALE, t))))
        up == Sqrt(t_p)
        over == Sqrt(Sub(SCALE, Mul(up, up)))
        around == Mul(s_p, TWO_PI)
    IN  HemisphereLocals("shirley", normal, s, t, s_p, t_p, up, over, around, d2.rng)

shirleyRandomDirectionInHemisphere(normal, rng) ==
    LET l == shirleyLocals(normal, rng) IN [dir |-> l.dir, rng |-> l.rng]

\* No sampler has been called: only the arguments are set.
NoSample(normal, rng) ==
    [fn |-> "none", normal |-> normal, s |-> 0, t |-> 0, s_p |-> 0, t_p |-> 0,
     up |-> 0, over |-> 0, around |-> 0,
     directionNotNormal |-> <<0, 0, 0>>,
     perpendicularDirection1 |-> <<0, 0, 0>>,
     perpendicularDirection2 |-> <<0, 0, 0>>,
     dir |-> <<0, 0, 0>>, rng |-> rng]

\* Unit surface normals (to the resolution of a float).
UnitNormals ==
    {<<0, 0, SCALE>>, <<0, 0, -SCALE>>, <<SCALE, 0, 0>>, <<0, SCALE, 0>>,
     <<F(3, 5), 0, F(4, 5)>>, <<-F(4, 5), F(3, 5), 0>>,
     <<5774, 5774, 5773>>, <<5773, 5774, 5774>>,
     <<F(2, 7), -F(3, 7), F(6, 7)>>}

-----------------------------------------------------------------------------
(* scatterRay *)

\* The frame of a call: the four arguments (three of them references the
\* call can write through, the material a const reference), the locals set
\* before the dispatch, and the branch the dispatch took.
CallFrame(ps, isect, m, rng) ==
    [ps |-> ps, isect |-> isect, m |-> m, rng |-> rng,
     normal |-> <<0, 0, 0>>, intersect |-> <<0, 0, 0>>,
     dir_spec |-> <<0, 0, 0>>, dir_diff |-> <<0, 0, 0>>, choice |-> 0,
     branch |-> "entry"]

EPSILON == F(1, 1000)

\* normal, intersect and the first write of ray.origin.
OffsetOrigin(f) ==
    LET normal == f.isect.surfaceNormal
        intersect == VAdd(f.ps.origin, VScale(f.isect.t, f.ps.direction))
    IN  [f EXCEPT !.normal = normal,
                  !.intersect = intersect,
                  !.ps.origin = VAdd(intersect, VScale(EPSILON, normal))]

\* dir_spec, dir_diff (two draws) and choice (the third draw).
DrawDirections(f) ==
    LET dir_spec == Normalize(Reflect(f.ps.direction, f.normal))
        diff == shirleyRandomDirectionInHemisphere(f.normal, f.rng)
        c == U01(diff.rng)
    IN  [f EXCEPT !.dir_spec = dir_spec,
                  !.dir_diff = diff.dir,
                  !.choice = c.value,
                  !.rng = c.rng]

\* The locals of the refractive branch.
RefractiveLocals(f) ==
    LET cos_theta == Dot(VNeg(f.ps.direction), f.normal)
        sin_theta == Sqrt(Sub(SCALE, Mul(cos_theta, cos_theta)))
        ratio == IF f.isect.outside THEN f.m.indexOfRefraction
                 ELSE Div(SCALE, f.m.indexOfRefraction)
        dir_refr == Refract(f.ps.direction, f.isect.surfaceNormal, ratio)
        r0 == Div(Div(Mul(Sub(SCALE, ratio), Sub(SCALE, ratio)),
                      Add(SCALE, ratio)),
                  Add(SCALE, ratio))
        r == Add(r0, Mul(Sub(SCALE, r0), Pow(Sub(SCALE, cos_theta), 5)))
    IN  [cos_theta |-> cos_theta, sin_theta |-> sin_theta, ratio |-> ratio,
         dir_refr |-> dir_refr, r0 |-> r0, r |-> r]

MustReflect(f) ==
    [f EXCEPT !.ps.direction = f.dir_spec,
              !.ps.color = VMul(f.ps.color, f.m.specular_color),
              !.branch = "must reflect"]

FresnelReflect(f) ==
    [f EXCEPT !.ps.direction = f.dir_spec,
              !.ps.color = VMul(f.ps.color, f.m.specular_color),
              !.branch = "reflect"]

RefractNoOffsetFlip(f) ==
    [f EXCEPT !.ps.direction = RefractiveLocals(f).dir_refr,
              !.ps.origin = VSub(f.ps.origin, VScale(EPSILON, f.normal)),
              !.ps.color = VMul(f.ps.color, f.m.color),
              !.branch = "refract"]

FresnelRefract(f) ==
    [f EXCEPT !.ps.direction = RefractiveLocals(f).dir_refr,
              !.ps.origin = VSub(f.intersect, VScale(EPSILON, f.normal)),
              !.ps.color = VMul(f.ps.color, f.m.color),
              !.branch = "refract"]

RefractiveBranchNoMustReflect(f) ==
    IF Gt(f.choice, RefractiveLocals(f).r) THEN FresnelRefract(f)
    ELSE FresnelReflect(f)

RefractiveBranchFlipped(f) ==
    LET l == RefractiveLocals(f)
    IN  IF Gt(Mul(l.ratio, l.sin_theta), SCALE) THEN MustReflect(f)
        ELSE IF Lt(f.choice, l.r) THEN FresnelRefract(f)
        ELSE FresnelReflect(f)

RefractiveBranch(f) ==
    LET l == RefractiveLocals(f)
    IN  IF Gt(Mul(l.ratio, l.sin_theta), SCALE) THEN MustReflect(f)
        ELSE IF Gt(f.choice, l.r) THEN FresnelRefract(f)
        ELSE FresnelReflect(f)

\* spec and scale set, then the writes of direction and color.
Blend(f, spec, scale) ==
    [f EXCEPT !.ps.direction = IF spec THEN f.dir_spec ELSE f.dir_diff,
              !.ps.color =
                  IF spec THEN VMul(f.ps.color, VScale(scale, f.m.specular_color))
                  ELSE VMul(f.ps.color, VScale(Sub(SCALE, scale), f.m.color)),
              !.branch = IF spec THEN "specular" ELSE "diffuse"]

\* The branch under #if 0 taken for a material that is not reflective.
BlendBranchDisabledVariant(f) ==
    IF f.m.hasReflective THEN Blend(f, Gt(f.choice, F(2, 10)), F(8, 10))
    ELSE Blend(f, Gt(f.choice, F(8, 10)), F(2, 10))

BlendBranchSwappedThreshold(f) ==
    IF f.m.hasReflective THEN Blend(f, Gt(f.choice, F(8, 10)), F(8, 10))
    ELSE Blend(f, FALSE, 0)

BlendBranch(f) ==
    IF f.m.hasReflective THEN Blend(f, Gt(f.choice, F(2, 10)), F(8, 10))
    ELSE Blend(f, FALSE, 0)

DispatchReflectiveFirst(f) ==
    IF f.m.hasReflective THEN BlendBranch(f)
    ELSE IF f.m.hasRefractive THEN RefractiveBranch(f)
    ELSE BlendBranch(f)

DispatchFlipsNormal(f) ==
    IF f.m.hasRefractive
    THEN [RefractiveBranch(f) EXCEPT !.isect.surfaceNormal = VNeg(f.normal)]
    ELSE BlendBranch(f)

Dispatch(f) ==
    IF f.m.hasRefractive THEN RefractiveBranch(f) ELSE BlendBranch(f)

scatterRay(ps, isect, m, rng) ==
    Dispatch(DrawDirections(OffsetOrigin(CallFrame(ps, isect, m, rng))))

NoAcc == [n |-> 0, sum |-> <<0, 0, 0>>, specular |-> 0, diffuse |-> 0]

InitSampler ==
    /\ pathSegments = <<>>
    /\ intersections = <<>>
    /\ materials = <<>>
    /\ materialId = <<>>
    /\ rngs = <<>>
    /\ pc = <<>>
    /\ frames = <<>>
    /\ pre = <<>>
    /\ acc = NoAcc
    /\ \E n \in UnitNormals, s \in Draws, t \in Draws :
           sample = NoSample(n, <<s, t>>)

CallShirley ==
    /\ sample.fn = "none"
    /\ sample' = shirleyLocals(sample.normal, sample.rng)
    /\ UNCHANGED <<pathSegments, intersections, materials, materialId, rngs, pc,
                   frames, pre, acc>>

CallCalculate ==
    /\ sample.fn = "none"
    /\ sample' = calculateLocals(sample.normal, sample.rng)
    /\ UNCHANGED <<pathSegments, intersections, materials, materialId, rngs, pc,
                   frames, pre, acc>>

NextSampler == CallShirley \/ CallCalculate

SpecSampler == InitSampler /\ [][NextSampler]_vars

-----------------------------------------------------------------------------
(* One call of scatterRay *)

\* Incoming direction and surface normal: normal incidence on a slanted
\* normal, and incidence at 0.8, 0.6 and 0.28 of cos(theta).
Incidences ==
    {<<<<0, -F(3, 5), -F(4, 5)>>, <<0, F(3, 5), F(4, 5)>>>>,
     <<<<F(3, 5), 0, -F(4, 5)>>, <<0, 0, SCALE>>>>,
     <<<<-SCALE, 0, 0>>, <<F(3, 5), 0, F(4, 5)>>>>,
     <<<<F(24, 25), 0, -F(7, 25)>>, <<0, 0, SCALE>>>>}

Origin == <<SCALE, 2 * SCALE, -SCALE>>

White == <<SCALE, SCALE, SCALE>>

\* Distance of the hit along the ray, and the colour the path carries to it.
Carried == {<<F(1, 2), White>>, <<2 * SCALE, <<F(1, 2), F(1, 4), SCALE>>>>}

HitDistances == {c[1] : c \in Carried}

\* Diffuse and specular colour of a material.
Colours == {<<White, White>>,
            <<<<F(1, 2), F(1, 2), F(1, 2)>>, <<F(9, 10), F(8, 10), F(7, 10)>>>>}

Material(colours, reflective, refractive, ior) ==
    [color |-> colours[1], specular_color |-> colours[2],
     hasReflective |-> reflective, hasRefractive |-> refractive,
     indexOfRefraction |-> ior]

\* The index of refraction is 1 where the material does not refract.
Materials ==
    {Material(c, fl, FALSE, SCALE) : c \in Colours, fl \in BOOLEAN}
    \cup {Material(c, fl, TRUE, ior) :
              c \in Colours, fl \in BOOLEAN, ior \in {SCALE, F(3, 2)}}

Segment(origin, direction, color) ==
    [origin |-> origin, direction |-> direction, color |-> color]

Hit(t, normal, outside) == [t |-> t, surfaceNormal |-> normal, outside |-> outside]

Paths == DOMAIN pathSegments

\* The arguments of the calls, as they are now.
Arguments ==
    [pathSegments |-> pathSegments, intersections |-> intersections,
     materials |-> materials, rngs |-> rngs]

Init ==
    /\ \E inc \in Incidences, c \in Carried,
          o \in BOOLEAN, m \in Materials, s \in Draws, t \in Draws, ch \in Choices :
           /\ pathSegments = <<Segment(Origin, inc[1], c[2])>>
           /\ intersections = <<Hit(c[1], inc[2], o)>>
           /\ materials = <<m>>
           /\ rngs = <<<<s, t, ch>>>>
    /\ materialId = <<1>>
    /\ pc = <<"start">>
    /\ frames = <<CallFrame(pathSegments[1], intersections[1], materials[1], rngs[1])>>
    /\ pre = Arguments
    /\ sample = NoSample(<<0, 0, 0>>, <<>>)
    /\ acc = NoAcc

\* The frame of path i: its arguments are what the references now hold.
Frame(i) ==
    [frames[i] EXCEPT !.ps = pathSegments[i], !.isect = intersections[i],
                      !.m = materials[materialId[i]], !.rng = rngs[i]]

\* What a call leaves behind: the path segment, the intersection and the
\* generator are references; the material is a const reference.
Return(i, f, at) ==
    /\ pathSegments' = [pathSegments EXCEPT ![i] = f.ps]
    /\ intersections' = [intersections EXCEPT ![i] = f.isect]
    /\ rngs' = [rngs EXCEPT ![i] = f.rng]
    /\ frames' = [frames EXCEPT ![i] = f]
    /\ pc' = [pc EXCEPT ![i] = at]
    /\ UNCHANGED <<materials, materialId, pre, sample, acc>>

ScatterRay(i) ==
    /\ pc[i] = "start"
    /\ Return(i, scatterRay(pathSegments[i], intersections[i],
                            materials[materialId[i]], rngs[i]), "done")

Next == \E i \in Paths : ScatterRay(i)

Spec == Init /\ [][Next]_vars

-----------------------------------------------------------------------------
(* Calls on distinct path segments, one thread each, interleaved *)

SceneMaterials ==
    <<Material(<<White, White>>, FALSE, FALSE, SCALE),
      Material(<<<<F(1, 2), F(1, 2), F(1, 2)>>, White>>, TRUE, FALSE, SCALE),
      Material(<<White, <<F(9, 10), F(8, 10), F(7, 10)>>>>, TRUE, TRUE, F(3, 2))>>

\* The hit of each of the two paths.
ParIncidences ==
    <<<<<<0, 0, -SCALE>>, <<0, 0, SCALE>>>>,
      <<<<F(3, 5), 0, -F(4, 5)>>, <<0, 0, SCALE>>>>>>

ParCalls(i) ==
    {[ps |-> Segment(Origin, ParIncidences[i][1], White),
      isect |-> Hit(F(1, 2), ParIncidences[i][2], TRUE),
      id |-> id, rng |-> <<F(3, 4), F(1, 4), ch>>] :
        id \in DOMAIN SceneMaterials, ch \in Choices}

InitPar ==
    /\ \E a \in ParCalls(1), b \in ParCalls(2) :
           /\ pathSegments = <<a.ps, b.ps>>
           /\ intersections = <<a.isect, b.isect>>
           /\ materialId = <<a.id, b.id>>
           /\ rngs = <<a.rng, b.rng>>
    /\ materials = SceneMaterials
    /\ pc = <<"start", "start">>
    /\ frames = [i \in 1 .. 2 |->
                    CallFrame(pathSegments[i], intersections[i],
                              materials[materialId[i]], rngs[i])]
    /\ pre = Arguments
    /\ sample = NoSample(<<0, 0, 0>>, <<>>)
    /\ acc = NoAcc

StepOffset(i) ==
    /\ pc[i] = "start"
    /\ Return(i, OffsetOrigin(Frame(i)), "offset")

StepDraw(i) ==
    /\ pc[i] = "offset"
    /\ Return(i, DrawDirections(Frame(i)), "drawn")

StepDispatch(i) ==
    /\ pc[i] = "drawn"
    /\ Return(i, Dispatch(Frame(i)), "done")

NextPar == \E i \in Paths : StepOffset(i) \/ StepDraw(i) \/ StepDispatch(i)

SpecPar == InitPar /\ [][NextPar]_vars

-----------------------------------------------------------------------------
(* Repeated calls on one hit, choice taking each of its values once *)

ChoiceAt(n) == F(2 * n + 1, 2 * ChoiceCells)

InitTally ==
    /\ \E inc \in Incidences, d \in HitDistances, c \in Colours,
          s \in Draws, t \in Draws :
           /\ pathSegments = <<Segment(Origin, inc[1], White)>>
           /\ intersections = <<Hit(d, inc[2], TRUE)>>
           /\ materials = <<Material(c, TRUE, FALSE, SCALE)>>
           /\ rngs = <<<<s, t, ChoiceAt(0)>>>>
    /\ materialId = <<1>>
    /\ pc = <<"start">>
    /\ frames = <<CallFrame(pathSegments[1], intersections[1], materials[1], rngs[1])>>
    /\ pre = Arguments
    /\ sample = NoSample(<<0, 0, 0>>, <<>>)
    /\ acc = NoAcc

\* One more call on the hit as it was, with the next value of choice.
TallyFrame ==
    scatterRay(pre.pathSegments[1], intersections[1], materials[1],
               <<pre.rngs[1][1], pre.rngs[1][2], ChoiceAt(acc.n)>>)

\* The bounce a call made, by what it left in the path segment.
IsSpecular(f, m) ==
    /\ f.ps.direction = f.dir_spec
    /\ f.ps.color = VScale(F(8, 10), m.specular_color)

IsDiffuse(f, m) ==
    /\ f.ps.direction = f.dir_diff
    /\ f.ps.color = VScale(F(2, 10), m.color)

\* The colour the call leaves (the multiplier, the colour before being
\* white) is added to the sum and the bounce it made is counted.
Tallied(f, m) ==
    [n |-> acc.n + 1,
     sum |-> VAdd(acc.sum, f.ps.color),
     specular |-> acc.specular + (IF IsSpecular(f, m) THEN 1 ELSE 0),
     diffuse |-> acc.diffuse + (IF IsDiffuse(f, m) THEN 1 ELSE 0)]

TallyCall ==
    /\ acc.n < ChoiceCells
    /\ pathSegments' = <<TallyFrame.ps>>
    /\ rngs' = <<TallyFrame.rng>>
    /\ frames' = <<TallyFrame>>
    /\ acc' = Tallied(TallyFrame, materials[1])
    /\ pc' = <<IF acc.n + 1 = ChoiceCells THEN "done" ELSE "start">>
    /\ UNCHANGED <<intersections, materials, materialId, pre, sample>>

NextTally == TallyCall

SpecTally == InitTally /\ [][NextTally]_vars

-----------------------------------------------------------------------------
(* Properties of scatterRay *)

Done(i) == pc[i] = "done"

Before(i) == pre.pathSegments[i]

After(i) == pathSegments[i]

HitOf(i) == pre.intersections[i]

MaterialOf(i) == pre.materials[materialId[i]]

\* hitPoint = origin + t * direction of the ray as it was before the call.
HitPoint(i) == VAdd(Before(i).origin, VScale(HitOf(i).t, Before(i).direction))

OffsetAlong(i) == VAdd(HitPoint(i), VScale(F(1, 1000), HitOf(i).surfaceNormal))

OffsetAgainst(i) == VSub(HitPoint(i), VScale(F(1, 1000), HitOf(i).surfaceNormal))

\* The mirror reflection of the incoming direction about the normal.
Mirror(i) == Normalize(Reflect(Before(i).direction, HitOf(i).surfaceNormal))

\* The hemisphere sample: the stratified sampler on the generator as given.
HemisphereSample(i) ==
    shirleyRandomDirectionInHemisphere(HitOf(i).surfaceNormal, pre.rngs[i]).dir

\* eta, cosThetaI, sinThetaI and the reflectance r of the Fresnel evaluation.
Eta(i) ==
    IF HitOf(i).outside THEN MaterialOf(i).indexOfRefraction
    ELSE Div(SCALE, MaterialOf(i).indexOfRefraction)

CosThetaI(i) == Dot(VNeg(Before(i).direction), HitOf(i).surfaceNormal)

SinThetaI(i) == Sqrt(Sub(SCALE, Mul(CosThetaI(i), CosThetaI(i))))

TotalInternalReflection(i) == Gt(Mul(Eta(i), SinThetaI(i)), SCALE)

Reflectance(i) ==
    LET q == Div(Sub(SCALE, Eta(i)), Add(SCALE, Eta(i)))
        r0 == Mul(q, q)
    IN  Add(r0, Mul(Sub(SCALE, r0), Pow(Sub(SCALE, CosThetaI(i)), 5)))

RefractionVector(i) == Refract(Before(i).direction, HitOf(i).surfaceNormal, Eta(i))

\* The choice drawn by the call.
ChoiceOf(i) == frames[i].choice

\* C1: for a refractive material the refractive path is taken and returned
\* from: the path segment is left as it would be with hasReflective the
\* other way round, and the colour is multiplied by specular.color or by
\* color alone, with no 0.8 or 0.2.
RefractiveDominates ==
    \A i \in Paths :
        (Done(i) /\ MaterialOf(i).hasRefractive) =>
            LET m == MaterialOf(i)
                other == scatterRay(Before(i), HitOf(i),
                                    [m EXCEPT !.hasReflective = ~@], pre.rngs[i])
            IN  /\ After(i) = other.ps
                /\ rngs[i] = other.rng
                /\ frames[i].branch \in {"must reflect", "refract", "reflect"}
                /\ \/ After(i).color = VMul(Before(i).color, m.specular_color)
                   \/ After(i).color = VMul(Before(i).color, m.color)

\* A material both refractive and reflective, with a choice above 0.2 and
\* colours that the 0.8 scale would change.
RefractiveDominatesWitness ==
    /\ Done(1)
    /\ MaterialOf(1).hasRefractive /\ MaterialOf(1).hasReflective
    /\ MaterialOf(1).color # MaterialOf(1).specular_color
    /\ ChoiceOf(1) > F(2, 10)
    /\ frames[1].branch = "refract"
    /\ After(1).color = VMul(Before(1).color, MaterialOf(1).color)

\* C2: under total internal reflection the call reflects whatever choice
\* is: direction = mirror reflection, color *= specular.color, origin =
\* hitPoint + 0.001 * normal.
TotalInternalReflectionForced ==
    \A i \in Paths :
        (Done(i) /\ MaterialOf(i).hasRefractive /\ TotalInternalReflection(i)) =>
            /\ After(i).direction = Mirror(i)
            /\ After(i).color = VMul(Before(i).color, MaterialOf(i).specular_color)
            /\ After(i).origin = OffsetAlong(i)

\* Total internal reflection with a choice above the reflectance, which
\* would refract were refraction possible.
TotalInternalReflectionWitness ==
    /\ Done(1)
    /\ MaterialOf(1).hasRefractive
    /\ TotalInternalReflection(1)
    /\ Gt(ChoiceOf(1), Reflectance(1))
    /\ ChoiceOf(1) = ChoiceAt(ChoiceCells - 1)
    /\ MaterialOf(1).color # MaterialOf(1).specular_color

\* C3: without total internal reflection the call refracts iff choice > r:
\* refraction vector and color *= color, else mirror reflection and
\* color *= specular.color. With index 1.5, from outside, against the
\* normal, r = 0.04 and every choice > 0.04 leaves the direction as it was.
FresnelChoice ==
    \A i \in Paths :
        (Done(i) /\ MaterialOf(i).hasRefractive /\ ~TotalInternalReflection(i)) =>
            /\ IF Gt(ChoiceOf(i), Reflectance(i))
               THEN /\ After(i).direction = RefractionVector(i)
                    /\ After(i).color = VMul(Before(i).color, MaterialOf(i).color)
                    /\ frames[i].branch = "refract"
               ELSE /\ After(i).direction = Mirror(i)
                    /\ After(i).color =
                           VMul(Before(i).color, MaterialOf(i).specular_color)
                    /\ frames[i].branch = "reflect"
            /\ (/\ MaterialOf(i).indexOfRefraction = F(3, 2)
                /\ HitOf(i).outside
                /\ Before(i).direction = VNeg(HitOf(i).surfaceNormal)) =>
                   /\ Reflectance(i) = F(4, 100)
                   /\ ChoiceOf(i) > F(4, 100) => After(i).direction = Before(i).direction

\* Glass entered at normal incidence and refracted straight through.
FresnelChoiceWitness ==
    /\ Done(1)
    /\ MaterialOf(1).hasRefractive
    /\ MaterialOf(1).indexOfRefraction = F(3, 2)
    /\ HitOf(1).outside
    /\ Before(1).direction = VNeg(HitOf(1).surfaceNormal)
    /\ HitOf(1).surfaceNormal = <<0, F(3, 5), F(4, 5)>>
    /\ ChoiceOf(1) > F(4, 100)
    /\ After(1).direction = Before(1).direction

\* A reflection chosen by the reflectance, not forced.
FresnelReflectWitness ==
    /\ Done(1)
    /\ MaterialOf(1).hasRefractive
    /\ ~TotalInternalReflection(1)
    /\ ~Gt(ChoiceOf(1), Reflectance(1))
    /\ After(1).direction = Mirror(1)
    /\ After(1).direction # RefractionVector(1)

\* C5: a material neither reflective nor refractive never takes the specular
\* bounce: direction = hemisphere sample, color = color before * m.color.
PureDiffuse ==
    \A i \in Paths :
        (Done(i) /\ ~MaterialOf(i).hasReflective /\ ~MaterialOf(i).hasRefractive) =>
            /\ After(i).direction = HemisphereSample(i)
            /\ After(i).color = VMul(Before(i).color, MaterialOf(i).color)
            /\ MaterialOf(i).color = <<F(1, 2), F(1, 2), F(1, 2)>> =>
                   After(i).color = <<Before(i).color[1] \div 2,
                                      Before(i).color[2] \div 2,
                                      Before(i).color[3] \div 2>>
            /\ frames[i].branch = "diffuse"

\* A pure diffuse material of colour (0.5, 0.5, 0.5) and the largest choice.
PureDiffuseWitness ==
    /\ Done(1)
    /\ ~MaterialOf(1).hasReflective /\ ~MaterialOf(1).hasRefractive
    /\ MaterialOf(1).color = <<F(1, 2), F(1, 2), F(1, 2)>>
    /\ ChoiceOf(1) = ChoiceAt(ChoiceCells - 1)
    /\ Before(1).color # White
    /\ ~VHasNaN(After(1).direction)
    /\ After(1).direction # Mirror(1)

\* C6: the new origin is hitPoint + 0.001 * normal, and hitPoint - 0.001 *
\* normal when the call refracted; hitPoint is that of the ray before the call.
OriginOffsetSide ==
    \A i \in Paths :
        Done(i) =>
            After(i).origin = IF frames[i].branch = "refract" THEN OffsetAgainst(i)
                              ELSE OffsetAlong(i)

\* A refraction at a hit away from the old origin, on a slanted normal.
OriginOffsetSideWitness ==
    /\ Done(1)
    /\ frames[1].branch = "refract"
    /\ After(1).direction = RefractionVector(1)
    /\ HitOf(1).surfaceNormal = <<F(3, 5), 0, F(4, 5)>>
    /\ HitOf(1).t = 2 * SCALE
    /\ After(1).origin = OffsetAgainst(1)
    /\ After(1).origin # OffsetAlong(1)

\* C7: a call writes only the origin, direction and colour of its own path
\* segment and advances its own generator; the materials and the
\* intersections stay as they were, and every interleaving of the calls
\* leaves each path segment as the call alone on it would.
Independence ==
    /\ materials = pre.materials
    /\ intersections = pre.intersections
    /\ \A i \in Paths :
           /\ pc[i] = "start" =>
                  pathSegments[i] = Before(i) /\ rngs[i] = pre.rngs[i]
           /\ Done(i) =>
                  LET f == scatterRay(Before(i), HitOf(i), MaterialOf(i), pre.rngs[i])
                  IN  pathSegments[i] = f.ps /\ rngs[i] = f.rng

\* Two calls sharing a material: one has returned while the other is between
\* its draws and its dispatch; and both returned with different results.
IndependenceWitness ==
    /\ Paths = {1, 2}
    /\ materialId[1] = materialId[2]
    /\ pc = <<"drawn", "done">>
    /\ pathSegments[2].direction # Before(2).direction
    /\ pathSegments[1].direction = Before(1).direction

-----------------------------------------------------------------------------
(* Properties of the hemisphere samplers *)

Tolerance == SCALE \div 100

NearOne(a) == ~IsNaN(a) /\ Abs(a - SCALE) <= Tolerance

NearZero(a) == ~IsNaN(a) /\ Abs(a) <= Tolerance

\* C8: the direction a hemisphere sampler returns has magnitude 1, and the
\* value whose square root is cosTheta lies in [0, 1].
UnitLength ==
    sample.fn # "none" =>
        /\ ~IsNaN(sample.t_p) /\ 0 <= sample.t_p /\ sample.t_p <= SCALE
        /\ NearOne(Add(Mul(sample.up, sample.up), Mul(sample.over, sample.over)))
        /\ NearOne(Length(sample.dir))

\* The part of C8 that is about calculateRandomDirectionInHemisphere.
UnitLengthCalculate == sample.fn = "calculate" => UnitLength

\* The stratified sampler returns a direction of magnitude 1 whenever the
\* remapped second draw lies in [0, 1].
UnitLengthShirleyInRange ==
    (sample.fn = "shirley" /\ 0 <= sample.t_p /\ sample.t_p <= SCALE) =>
        NearOne(Length(sample.dir))

\* The remapping of one coordinate, as a function of that coordinate.
Remap(x) ==
    IF x < F(1, 2) THEN Add(-F(1, 2), Sqrt(Mul(2 * SCALE, x)))
    ELSE Sub(F(3, 2), Sqrt(Sub(2 * SCALE, Mul(2 * SCALE, x))))

\* C9: in the stratified sampler each draw is remapped by its own value: the
\* remapped second coordinate is a function of the second draw alone.
PerCoordinateRemap ==
    sample.fn = "shirley" =>
        /\ sample.s_p = Remap(sample.s)
        /\ sample.t_p = Remap(sample.t)

\* C10: the reference axis is not parallel to the normal, so the two
\* perpendicular directions are defined and orthogonal to the normal.
AxisNotParallel ==
    sample.fn # "none" =>
        /\ Abs(Dot(sample.directionNotNormal, sample.normal)) < SCALE
        /\ Cross(sample.normal, sample.directionNotNormal) # <<0, 0, 0>>
        /\ ~VHasNaN(sample.perpendicularDirection1)
        /\ ~VHasNaN(sample.perpendicularDirection2)
        /\ NearZero(Dot(sample.perpendicularDirection1, sample.normal))
        /\ NearZero(Dot(sample.perpendicularDirection2, sample.normal))
        /\ NearOne(Length(sample.perpendicularDirection1))
        /\ NearOne(Length(sample.perpendicularDirection2))

\* The stratified sampler has run on a normal whose x and y components are
\* both at the threshold, for which the Z axis is chosen.
AxisNotParallelWitness ==
    /\ sample.fn = "shirley"
    /\ sample.normal = <<5774, 5774, 5773>>
    /\ sample.directionNotNormal = <<0, 0, SCALE>>

====
